---- MODULE Spec2Model ----
(***************************************************************************)
(* TattooApp: the image-processing tiers of AIImageProcessor and           *)
(* StarVectorProcessor, and the design store of DesignManager.             *)
(*                                                                         *)
(* External calls (fetch, expo-image-manipulator, expo-file-system,        *)
(* AsyncStorage) are the environment: every outcome the call can have is   *)
(* a nondeterministic choice.  An async function of the source is an       *)
(* operator whose value is the SET of outcomes it can produce, built by    *)
(* following its control flow; an action picks one element of that set.    *)
(***************************************************************************)
EXTENDS Integers, Sequences, FiniteSets, TLC

VARIABLES
    HfInference,        \* starVectorProcessor.ts:4   module loaded?
    ImageManipulator,   \* aiImageProcessor.ts:6 / starVectorProcessor.ts:14
    FileSystem,         \* aiImageProcessor.ts:7 / starVectorProcessor.ts:15
    AI_SERVICES,        \* [REMOVE_BG, CLIPDROP]: is the apiKey non-null
    hf,                 \* StarVectorProcessor.hf is a client (not null)
    isInitialized,      \* StarVectorProcessor.isInitialized
    cpuModeEnabled,     \* StarVectorProcessor.cpuModeEnabled
    everPassed,         \* history: what setAPIKeys was given, what initialize returned
    pc,                 \* position of the call in flight
    call,               \* [kind, imageUri, options] of the call in flight
    processingSteps,    \* the processingSteps array of the running function
    currentImageUri,    \* traditionalProcessingPipeline's currentImageUri
    result,             \* what the call resolved to
    netLog,             \* history: network requests issued by the call
    tierLog,            \* history: tiers started by the call, with outcome
    ran,                \* history: the pipeline steps run by the call, in order
    lastStep,           \* history: last pipeline step, its input, how its image op ended
    AsyncStorage,       \* designManager.ts:4    module loaded?
    stored,             \* the item under CUSTOM_DESIGNS_KEY in AsyncStorage
    memoryStorage,      \* designManager.ts:14
    dmLast,             \* history: the last DesignManager call and its outcome
    other,              \* the store of the other backend after the same calls
    cropArea,           \* DesignCaptureScreen.tsx:51  the cropArea state
    imageLayoutRef,     \* DesignCaptureScreen.tsx:57  imageLayoutRef.current
    dragStartCropRef,   \* DesignCaptureScreen.tsx:55  dragStartCropRef.current
    gesture,            \* which pan responder holds the touch
    cropLast            \* history: the last crop gesture step and its input

aiVars == <<HfInference, ImageManipulator, FileSystem, AI_SERVICES, hf,
            isInitialized, cpuModeEnabled, everPassed, pc, call,
            processingSteps, currentImageUri, result, netLog, tierLog, ran, lastStep>>

dmVars == <<AsyncStorage, stored, memoryStorage, dmLast, other>>

uiVars == <<cropArea, imageLayoutRef, dragStartCropRef, gesture, cropLast>>

vars == <<aiVars, dmVars, uiVars>>

Undefined == "undefined"

\* An awaited call either returns a value or throws.
Ok(v) == [threw |-> FALSE, value |-> v, message |-> ""]

Throw(m) == [threw |-> TRUE, value |-> Undefined, message |-> m]

NoSvg == [origin |-> "none", markup |-> "none", width |-> 0, height |-> 0]

\* Network requests, named by their endpoint.
HealthRequest == "GET localhost:8000/health"

GenerateRequest == "POST localhost:8000/generate"

HfChatRequest == "POST api-inference.huggingface.co/chat/completions"

HfTextRequest == "POST api-inference.huggingface.co/models"

RemoveBgRequest == "POST api.remove.bg/removebg"

ClipDropRequest == "POST clipdrop-api.co/remove-background"

\* Pixel size of a captured photo (what manipulateAsync reports for it).
ImageSize(uri) == [width |-> 1200, height |-> 600]

Min(a, b) == IF a < b THEN a ELSE b

(***************************************************************************)
(* StarVectorProcessor                                                     *)
(***************************************************************************)

\* initialize(huggingFaceToken, enableCPUMode): the new static fields and the
\* return value.  token: a non-empty token was given; ctorOk: new HfInference
\* did not throw.
initialize(token, enableCPUMode, ctorOk) ==
    IF enableCPUMode
    THEN [hf |-> hf, isInitialized |-> TRUE, cpuModeEnabled |-> TRUE, ret |-> TRUE]
    ELSE IF ~HfInference
    THEN [hf |-> hf, isInitialized |-> isInitialized,
          cpuModeEnabled |-> cpuModeEnabled, ret |-> FALSE]
    ELSE IF token /\ ctorOk
    THEN [hf |-> TRUE, isInitialized |-> TRUE,
          cpuModeEnabled |-> cpuModeEnabled, ret |-> TRUE]
    ELSE [hf |-> hf, isInitialized |-> isInitialized,
          cpuModeEnabled |-> cpuModeEnabled, ret |-> FALSE]

isAvailable == isInitialized /\ hf /\ HfInference

\* checkLocalStarVector: response.ok, or false when fetch throws or times out.
checkLocalStarVector == {TRUE, FALSE}

\* callLocalStarVector: result.svg_code of a 200 response (any text the server
\* sent, possibly none), or null on an error status, a throw or a timeout.
callLocalStarVector ==
    {[origin |-> "cpu", markup |-> m, width |-> 0, height |-> 0] :
        m \in {"svg", "wrapped", "text"}} \cup {NoSvg}

\* extractSVGFromResponse: the first <svg ...</svg> of the response, or null.
extractSVGFromResponse(response) ==
    IF response \in {"svg", "wrapped"}
    THEN [origin |-> "hf", markup |-> "svg", width |-> 0, height |-> 0]
    ELSE NoSvg

\* tryTextGenerationAPI: the SVG found in the generated text, or null.
tryTextGenerationAPI ==
    {[svg |-> extractSVGFromResponse(r), net |-> <<HfTextRequest>>] :
        r \in {"svg", "wrapped", "text", "none"}}

\* callStarVectorAPI: chat completions first; on 404 the text generation API;
\* every other status, an answer without SVG and every throw give null.
callStarVectorAPI ==
    {[svg |-> extractSVGFromResponse(r), net |-> <<HfChatRequest>>] :
        r \in {"svg", "wrapped", "text", "none"}}
    \cup {[svg |-> t.svg, net |-> <<HfChatRequest>> \o t.net] :
            t \in tryTextGenerationAPI}

\* prepareImageForStarVector: the resized JPEG, or the original image when the
\* module is missing or the resize throws.
prepareImageForStarVector(imageUri) ==
    IF ~ImageManipulator THEN {imageUri}
    ELSE {"manip:starvector_prepared.jpg", imageUri}

\* validateBase64Image applied to what readAsStringAsync returned.
validateBase64Image(base64) == base64 = "image"

\* validateAndCleanSVG: throws unless the text holds an <svg ...</svg>.
validateAndCleanSVG(svgCode) ==
    IF svgCode.markup \in {"svg", "wrapped"}
    THEN Ok([svgCode EXCEPT !.markup = "cleaned"])
    ELSE Throw("Invalid SVG code generated")

\* createSimpleTattooDesign: writes a constant PNG, resizes it and returns the
\* resized file; when any of that throws, writes a .txt file and returns its
\* path; throws when that fails too.
createSimpleTattooDesign ==
    IF ~ImageManipulator \/ ~FileSystem
    THEN {Throw("Required modules not available")}
    ELSE UNION {
            IF tryBlock = "ok"
            THEN {Ok("manip:tattoo_design.png")}
            ELSE {IF txtWritten
                  THEN Ok("file:fallback_design.txt")
                  ELSE Throw("Could not create any design output") :
                    txtWritten \in BOOLEAN} :
            tryBlock \in {"ok", "write throws", "manipulate throws", "delete throws"}}

\* createTattooImageFallback(svgCode): svgCode is not used.
createTattooImageFallback(svgCode) ==
    IF ~ImageManipulator
    THEN {Throw("ImageManipulator not available")}
    ELSE createSimpleTattooDesign

convertSVGToPNG(svgCode) == createTattooImageFallback(svgCode)

\* saveSVGToFile: writes the .svg, then returns the image for display.
saveSVGToFile(svgCode) ==
    IF ~FileSystem
    THEN {Throw("FileSystem not available")}
    ELSE UNION {
            IF ~svgWritten
            THEN {Throw("writeAsStringAsync failed")}
            ELSE UNION {IF ~p.threw THEN {p} ELSE createTattooImageFallback(svgCode) :
                         p \in convertSVGToPNG(svgCode)} :
            svgWritten \in BOOLEAN}

analyzeImageForVectors(imageUri) == "mock analysis"

\* generateSVGFromAnalysis: the template SVG, sized from the image when the
\* manipulator can open it and 400 x 400 otherwise.
generateSVGFromAnalysis(analysis, imageUri) ==
    {[origin |-> "local-inspired", markup |-> "svg", width |-> 400, height |-> 400]}
    \cup IF ImageManipulator
         THEN {[origin |-> "local-inspired", markup |-> "svg",
                width |-> Min(ImageSize(imageUri).width, 800),
                height |-> Min(ImageSize(imageUri).height, 800)]}
         ELSE {}

optimizeSVGForTattoo(svgCode) == [svgCode EXCEPT !.markup = "optimized"]

\* A StarVectorResult, with the requests issued while computing it.
StarVectorFailure(steps, error, net) ==
    [success |-> FALSE, svgCode |-> NoSvg, svgUri |-> Undefined,
     processingSteps |-> steps, model |-> Undefined, error |-> error, net |-> net]

StarVectorSuccess(steps, svgCode, svgUri, model, net) ==
    [success |-> TRUE, svgCode |-> svgCode, svgUri |-> svgUri,
     processingSteps |-> steps, model |-> model, error |-> Undefined, net |-> net]

\* processWithLocalStarVector(imageUri): never throws.
processWithLocalStarVector(imageUri) ==
    UNION {
        LET optimizedSVG == optimizeSVGForTattoo(svgCode)
            steps3 == <<"Image analyzed for vector elements",
                        "SVG structure generated",
                        "SVG optimized for tattoo design">>
        IN  {IF saved.threw
             THEN StarVectorFailure(steps3, saved.message, <<>>)
             ELSE StarVectorSuccess(Append(steps3, "SVG file saved"), optimizedSVG,
                                    saved.value, "local-starvector-inspired", <<>>) :
                saved \in saveSVGToFile(optimizedSVG)} :
        svgCode \in generateSVGFromAnalysis(analyzeImageForVectors(imageUri), imageUri)}

ModelName(options) ==
    IF options.model = "8b"
    THEN "starvector/starvector-8b-im2svg"
    ELSE "starvector/starvector-1b-im2svg"

\* imageToSVG, lines 258-284: the catch block.
ImageToSVGCatch(imageUri, steps, message, net) ==
    {[fb EXCEPT !.processingSteps =
            steps \o <<"Error in main processing: " \o message>> \o fb.processingSteps,
         !.net = net] :
        fb \in processWithLocalStarVector(imageUri)}

\* imageToSVG, lines 193-209 and 223-241: clean the SVG, save it, return.
ImageToSVGFinish(imageUri, steps, svgCode, model, net) ==
    LET cleaned == validateAndCleanSVG(svgCode)
        steps2 == Append(steps, "SVG code validated and cleaned")
    IN  IF cleaned.threw
        THEN ImageToSVGCatch(imageUri, steps, cleaned.message, net)
        ELSE UNION {
                IF saved.threw
                THEN ImageToSVGCatch(imageUri, steps2, saved.message, net)
                ELSE {StarVectorSuccess(Append(steps2, "SVG file saved"),
                                        cleaned.value, saved.value, model, net)} :
                saved \in saveSVGToFile(cleaned.value)}

\* imageToSVG, lines 245-256: step 6, the local StarVector-inspired generator.
ImageToSVGLocal(imageUri, steps, net) ==
    LET steps2 == Append(steps, "StarVector models not available")
    IN  {[lr EXCEPT !.processingSteps = steps2 \o lr.processingSteps, !.net = net] :
            lr \in processWithLocalStarVector(imageUri)}

\* Mutant: the HuggingFace API is called without an initialized client.
ImageToSVGHuggingFaceWithoutClient(imageUri, steps, model, net) ==
    UNION {
        IF api.svg # NoSvg
        THEN ImageToSVGFinish(imageUri,
                Append(steps, "SVG code generated by StarVector HuggingFace API"),
                api.svg, model, net \o api.net)
        ELSE ImageToSVGLocal(imageUri, steps, net \o api.net) :
        api \in callStarVectorAPI}

\* imageToSVG, lines 217-243: step 5, the HuggingFace API.
ImageToSVGHuggingFace(imageUri, steps, model, net) ==
    IF isInitialized /\ hf
    THEN UNION {
            IF api.svg # NoSvg
            THEN ImageToSVGFinish(imageUri,
                    Append(steps, "SVG code generated by StarVector HuggingFace API"),
                    api.svg, model, net \o api.net)
            ELSE ImageToSVGLocal(imageUri, steps, net \o api.net) :
            api \in callStarVectorAPI}
    ELSE ImageToSVGLocal(imageUri, steps, net)

\* imageToSVG, lines 182-215: step 4, the local CPU server.
ImageToSVGLocalCPU(imageUri, options, steps, model) ==
    IF cpuModeEnabled \/ options.useCPUMode
    THEN UNION {
            IF isLocalAvailable
            THEN UNION {
                    IF localSvgCode # NoSvg
                    THEN ImageToSVGFinish(imageUri,
                            Append(steps, "SVG generated using local CPU StarVector"),
                            localSvgCode, model \o " (Local CPU)",
                            <<HealthRequest, GenerateRequest>>)
                    ELSE ImageToSVGHuggingFace(imageUri, steps, model,
                            <<HealthRequest, GenerateRequest>>) :
                    localSvgCode \in callLocalStarVector}
            ELSE ImageToSVGHuggingFace(imageUri,
                    Append(steps, "Local CPU StarVector not available"),
                    model, <<HealthRequest>>) :
            isLocalAvailable \in checkLocalStarVector}
    ELSE ImageToSVGHuggingFace(imageUri, steps, model, <<>>)

\* imageToSVG(imageUri, options): the set of results it can resolve to.
imageToSVG(imageUri, options) ==
    LET steps1 == <<"Image prepared for StarVector processing">>
        model == ModelName(options)
    IN  UNION {
            IF ~FileSystem
            THEN ImageToSVGCatch(imageUri, steps1, "FileSystem is undefined", <<>>)
            ELSE UNION {
                    IF base64 = "throws"
                    THEN ImageToSVGCatch(imageUri, steps1, "readAsStringAsync failed", <<>>)
                    ELSE IF ~validateBase64Image(base64)
                    THEN ImageToSVGCatch(imageUri, steps1,
                            "Invalid image format for StarVector processing", <<>>)
                    ELSE ImageToSVGLocalCPU(imageUri, options,
                            Append(steps1, "Using " \o model \o " model"), model) :
                    base64 \in {"image", "other", "throws"}} :
            preparedImageUri \in prepareImageForStarVector(imageUri)}

(***************************************************************************)
(* AIImageProcessor                                                        *)
(***************************************************************************)

Null == "null"

\* aiConfig.ts AI_PROCESSING_DEFAULTS: the fields processing reads.
AI_PROCESSING_DEFAULTS ==
    [removeBackground |-> TRUE, convertToLineArt |-> TRUE, autoContrast |-> TRUE,
     smartCrop |-> TRUE, useStarVector |-> TRUE, starVectorModel |-> "1b",
     fallbackToLocal |-> TRUE, useCPUMode |-> FALSE]

\* { ...defaults, ...options }
Spread(defaults, options) ==
    [f \in DOMAIN defaults \cup DOMAIN options |->
        IF f \in DOMAIN options THEN options[f] ELSE defaults[f]]

\* options.f used as a condition: an absent field is undefined, hence falsy.
Truthy(options, f) == f \in DOMAIN options /\ options[f]

\* The options a caller passes: which tiers it asks for, and which pipeline
\* steps it switches off.
TierChoices ==
    {<<>>,
     [useStarVector |-> FALSE],
     [useStarVector |-> FALSE, fallbackToLocal |-> FALSE],
     [useCPUMode |-> TRUE, starVectorModel |-> "1b", fallbackToLocal |-> TRUE],
     [starVectorModel |-> "8b", autoContrast |-> FALSE]}

StepChoices ==
    {[f \in off |-> FALSE] :
        off \in SUBSET {"removeBackground", "smartCrop", "convertToLineArt"}}

OptionInputs == {Spread(t, s) : t \in TierChoices, s \in StepChoices}

ImageUris == {"file:captured.jpg"}

finalOptions == Spread(AI_PROCESSING_DEFAULTS, call.options)

\* Lines 93-98: the StarVectorOptions built for imageToSVG.  useCPUMode is not
\* among the fields copied, so imageToSVG reads it as undefined.
StarVectorOptionsOf(fo) ==
    [model |-> IF fo.starVectorModel \in {"1b", "8b"} THEN fo.starVectorModel ELSE "1b",
     useCPUMode |-> FALSE]

\* step.includes(needle)
Includes(step, needle) ==
    \E i \in 1..(Len(step) - Len(needle) + 1) :
        SubSeq(step, i, i + Len(needle) - 1) = needle

\* Lines 106-108.
UsingAPI(steps) ==
    \E i \in 1..Len(steps) :
        Includes(steps[i], "StarVector API") /\ ~Includes(steps[i], "not available")

ProcessingFailure(imageUri, steps) ==
    [success |-> FALSE, processedImageUri |-> Undefined, originalImageUri |-> imageUri,
     processingSteps |-> steps, format |-> Undefined, svgCode |-> NoSvg,
     model |-> Undefined]

ProcessingSuccess(imageUri, uri, steps, format, svgCode, model) ==
    [success |-> TRUE, processedImageUri |-> uri, originalImageUri |-> imageUri,
     processingSteps |-> steps, format |-> format, svgCode |-> svgCode,
     model |-> model]

\* The image steps: the URI returned and how the image operation ended.
StepOk(uri) == [uri |-> uri, outcome |-> "ok"]

StepThrew(imageUri) == [uri |-> imageUri, outcome |-> "threw"]

StepNoModule(imageUri) == [uri |-> imageUri, outcome |-> "no module"]

preprocessForAI(imageUri) ==
    IF ~ImageManipulator THEN {StepNoModule(imageUri)}
    ELSE {StepOk("manip:preprocessed_1024.jpg"), StepThrew(imageUri)}

\* Two manipulateAsync calls; either may throw.
localBackgroundRemoval(imageUri) ==
    IF ~ImageManipulator THEN {StepNoModule(imageUri)}
    ELSE {IF resized /\ compressed
          THEN StepOk("manip:high_contrast_800.png")
          ELSE StepThrew(imageUri) :
            resized \in BOOLEAN, compressed \in BOOLEAN}

\* Mutant: the catch block of smartCrop returns nothing.
smartCropWithoutFallback(imageUri) ==
    IF ~ImageManipulator THEN {StepNoModule(imageUri)}
    ELSE {StepOk("manip:cropped_600.png"), [uri |-> Undefined, outcome |-> "threw"]}

smartCrop(imageUri) ==
    IF ~ImageManipulator THEN {StepNoModule(imageUri)}
    ELSE {StepOk("manip:cropped_600.png"), StepThrew(imageUri)}

convertToLineArt(imageUri) ==
    IF ~ImageManipulator THEN {StepNoModule(imageUri)}
    ELSE {StepOk("manip:line_art.png"), StepThrew(imageUri)}

\* autoContrast is a parameter with default true.
applyTattooStyling(imageUri, autoContrast) ==
    IF ~ImageManipulator THEN {StepNoModule(imageUri)}
    ELSE {StepOk(IF autoContrast
                 THEN "manip:styled_800_compress_0.1.png"
                 ELSE "manip:styled_800_compress_0.8.png"),
          StepThrew(imageUri)}

\* A promise: settled with a value, or never settled.
Settled(v, net) == [settled |-> TRUE, value |-> v, net |-> net]

NeverSettled(net) == [settled |-> FALSE, value |-> Null, net |-> net]

\* tryRemoveBgAPI / tryClipDropAPI: null when fetch throws or the status is
\* not ok.  On a 200 the function returns a promise that only the FileReader
\* callback resolves, after writing the file; when the callback throws
\* (FileSystem undefined, reader.result null, writeAsStringAsync rejects)
\* nothing resolves or rejects that promise.
TryBackgroundAPI(request, fileUri) ==
    {Settled(Null, <<request>>), NeverSettled(<<request>>)}
    \cup IF FileSystem THEN {Settled(fileUri, <<request>>)} ELSE {}

tryRemoveBgAPI(imageUri) == TryBackgroundAPI(RemoveBgRequest, "file:bg_removed.png")

tryClipDropAPI(imageUri) == TryBackgroundAPI(ClipDropRequest, "file:clipdrop.png")

\* Mutant: ClipDrop is called whether or not its key is set.
RemoveBackgroundClipDropWithoutKey(imageUri, net) ==
    {IF ~r.settled THEN NeverSettled(net \o r.net)
     ELSE Settled(r.value, net \o r.net) :
        r \in tryClipDropAPI(imageUri)}

\* removeBackgroundAI, lines 362-367, after the requests in net.
RemoveBackgroundClipDrop(imageUri, net) ==
    IF AI_SERVICES.CLIPDROP
    THEN {IF ~r.settled THEN NeverSettled(net \o r.net)
          ELSE Settled(r.value, net \o r.net) :
            r \in tryClipDropAPI(imageUri)}
    ELSE {Settled(Null, net)}

\* Mutant: Remove.bg is called whether or not its key is set.
removeBackgroundAIWithoutKey(imageUri) ==
    UNION {
        IF ~r.settled THEN {NeverSettled(r.net)}
        ELSE IF r.value # Null THEN {Settled(r.value, r.net)}
        ELSE RemoveBackgroundClipDrop(imageUri, r.net) :
        r \in tryRemoveBgAPI(imageUri)}

removeBackgroundAI(imageUri) ==
    IF AI_SERVICES.REMOVE_BG
    THEN UNION {
            IF ~r.settled THEN {NeverSettled(r.net)}
            ELSE IF r.value # Null THEN {Settled(r.value, r.net)}
            ELSE RemoveBackgroundClipDrop(imageUri, r.net) :
            r \in tryRemoveBgAPI(imageUri)}
    ELSE RemoveBackgroundClipDrop(imageUri, <<>>)

\* traditionalProcessingPipeline: which step follows, from the options.
AfterSmartCrop(options) ==
    IF Truthy(options, "convertToLineArt") THEN "convertToLineArt" ELSE "applyTattooStyling"

\* Mutant: smart crop runs whatever options.smartCrop is.
AfterBackgroundAlwaysCrop(options) == "smartCrop"

AfterBackground(options) ==
    IF Truthy(options, "smartCrop") THEN "smartCrop" ELSE AfterSmartCrop(options)

AfterPreprocess(options) ==
    IF Truthy(options, "removeBackground") THEN "removeBackground"
    ELSE AfterBackground(options)

\* The options the running pipeline was called with (lines 149 and 311-315).
PipelineOptions ==
    IF call.kind = "process" THEN finalOptions
    ELSE [convertToLineArt |-> TRUE, removeBackground |-> TRUE]

\* processImageToTattooDesign: the tier entered first (lines 90 and 126) and
\* the tier entered after the StarVector tier failed.
\* Mutant: the local StarVector-inspired tier is skipped.
TierAfterStarVectorSkipsLocal(fo) == "traditional"

TierAfterStarVector(fo) ==
    IF fo.fallbackToLocal THEN "localStarVector" ELSE "traditional"

FirstTier(fo) ==
    IF fo.useStarVector /\ isAvailable THEN "starVector" ELSE TierAfterStarVector(fo)

(***************************************************************************)
(* Actions of the image-processing calls                                   *)
(***************************************************************************)

NoCall == [kind |-> "none", imageUri |-> Undefined, options |-> <<>>]

NoStep == [fn |-> "none", input |-> Undefined, outcome |-> "none"]

modulesUnchanged == UNCHANGED <<HfInference, ImageManipulator, FileSystem>>

configUnchanged ==
    /\ modulesUnchanged
    /\ UNCHANGED <<AI_SERVICES, hf, isInitialized, cpuModeEnabled, everPassed>>
    /\ UNCHANGED <<dmVars, uiVars>>

\* The modules are loaded once, in one try block each: when the require of
\* expo-image-manipulator throws, expo-file-system is not loaded either.
ModulesLoaded ==
    /\ HfInference \in BOOLEAN
    /\ ImageManipulator \in BOOLEAN
    /\ FileSystem \in BOOLEAN
    /\ FileSystem => ImageManipulator

\* The static fields as the class definitions initialize them, and no call.
ProcessorsStart ==
    /\ AI_SERVICES = [REMOVE_BG |-> FALSE, CLIPDROP |-> FALSE]
    /\ hf = FALSE
    /\ isInitialized = FALSE
    /\ cpuModeEnabled = FALSE
    /\ everPassed = [remoteKey |-> FALSE, cpuMode |-> FALSE, returnedTrue |-> FALSE]
    /\ pc = "idle"
    /\ call = NoCall
    /\ processingSteps = <<>>
    /\ currentImageUri = Undefined
    /\ result = <<>>
    /\ netLog = <<>>
    /\ tierLog = <<>>
    /\ ran = <<>>
    /\ lastStep = NoStep

\* setAPIKeys(keys, enableCPUMode).  keys.k: a non-empty key was given.  The
\* CODIA_AI key it also stores is read nowhere.
SetAPIKeys(keys, enableCPUMode, ctorOk) ==
    /\ pc = "idle"
    /\ AI_SERVICES' = [REMOVE_BG |-> AI_SERVICES.REMOVE_BG \/ keys.removeBG,
                       CLIPDROP |-> AI_SERVICES.CLIPDROP \/ keys.clipdrop]
    /\ LET sv == IF keys.huggingFace \/ enableCPUMode
                 THEN initialize(keys.huggingFace, enableCPUMode, ctorOk)
                 ELSE [hf |-> hf, isInitialized |-> isInitialized,
                       cpuModeEnabled |-> cpuModeEnabled, ret |-> FALSE]
       IN  /\ hf' = sv.hf
           /\ isInitialized' = sv.isInitialized
           /\ cpuModeEnabled' = sv.cpuModeEnabled
           /\ everPassed' =
                [remoteKey |-> everPassed.remoteKey \/ keys.removeBG \/ keys.clipdrop
                                \/ keys.huggingFace,
                 cpuMode |-> everPassed.cpuMode \/ enableCPUMode,
                 returnedTrue |-> everPassed.returnedTrue \/ sv.ret]
    /\ modulesUnchanged
    /\ UNCHANGED <<pc, call, processingSteps, currentImageUri, result, netLog,
                   tierLog, ran, lastStep>>
    /\ UNCHANGED <<dmVars, uiVars>>

\* processImageToTattooDesign(imageUri, options), lines 80-90 and 126: up to
\* the first await.
ProcessImageToTattooDesign(imageUri, options) ==
    /\ pc = "idle"
    /\ call' = [kind |-> "process", imageUri |-> imageUri, options |-> options]
    /\ pc' = FirstTier(Spread(AI_PROCESSING_DEFAULTS, options))
    /\ processingSteps' = <<>>
    /\ currentImageUri' = imageUri
    /\ result' = <<>>
    /\ netLog' = <<>>
    /\ tierLog' = <<>>
    /\ ran' = <<>>
    /\ lastStep' = NoStep
    /\ configUnchanged

\* Lines 90-123: the StarVector tier.
StarVectorTier ==
    /\ pc = "starVector"
    /\ \E r \in imageToSVG(call.imageUri, StarVectorOptionsOf(finalOptions)) :
        /\ netLog' = netLog \o r.net
        /\ tierLog' = Append(tierLog, [tier |-> "StarVector",
                         outcome |-> IF r.success THEN "success" ELSE "failure"])
        /\ IF r.success
           THEN /\ result' = ProcessingSuccess(call.imageUri, r.svgUri,
                                r.processingSteps, "SVG", r.svgCode,
                                IF UsingAPI(r.processingSteps)
                                THEN r.model
                                ELSE "Enhanced StarVector-inspired (Local)")
                /\ pc' = "resolved"
                /\ UNCHANGED processingSteps
           ELSE /\ processingSteps' =
                        Append(processingSteps, "StarVector processing not available")
                /\ pc' = TierAfterStarVector(finalOptions)
                /\ UNCHANGED result
    /\ UNCHANGED <<call, currentImageUri, ran, lastStep>>
    /\ configUnchanged

\* Lines 125-145: the local StarVector-inspired tier.
LocalStarVectorTier ==
    /\ pc = "localStarVector"
    /\ \E r \in processWithLocalStarVector(call.imageUri) :
        /\ netLog' = netLog \o r.net
        /\ tierLog' = Append(tierLog,
                        [tier |-> "Local StarVector-inspired",
                         outcome |-> IF r.success THEN "success" ELSE "failure"])
        /\ IF r.success
           THEN /\ result' = ProcessingSuccess(call.imageUri, r.svgUri,
                                processingSteps \o r.processingSteps, "SVG",
                                r.svgCode, r.model)
                /\ pc' = "resolved"
                /\ UNCHANGED processingSteps
           ELSE /\ processingSteps' =
                        Append(processingSteps, "Local StarVector processing failed")
                /\ pc' = "traditional"
                /\ UNCHANGED result
    /\ UNCHANGED <<call, currentImageUri, ran, lastStep>>
    /\ configUnchanged

\* generateProcessingPreviews(imageUri), lines 285-289.
GenerateProcessingPreviews(imageUri) ==
    /\ pc = "idle"
    /\ call' = [kind |-> "previews", imageUri |-> imageUri, options |-> <<>>]
    /\ pc' = IF isAvailable THEN "previewStarVector" ELSE "previewLocalStarVector"
    /\ result' = [original |-> imageUri]
    /\ processingSteps' = <<>>
    /\ currentImageUri' = imageUri
    /\ netLog' = <<>>
    /\ tierLog' = <<>>
    /\ ran' = <<>>
    /\ lastStep' = NoStep
    /\ configUnchanged

\* Mutant: a failed StarVector preview ends generateProcessingPreviews.
PreviewStarVectorStopsOnFailure ==
    /\ pc = "previewStarVector"
    /\ \E r \in imageToSVG(call.imageUri, [model |-> "1b", useCPUMode |-> FALSE]) :
        /\ netLog' = netLog \o r.net
        /\ result' = IF r.success /\ r.svgUri # Undefined
                     THEN Spread(result, [starVector |-> r.svgUri])
                     ELSE result
        /\ tierLog' = Append(tierLog, [tier |-> "StarVector",
                         outcome |-> IF r.success THEN "success" ELSE "failure"])
        /\ pc' = IF r.success THEN "previewLocalStarVector" ELSE "resolved"
    /\ UNCHANGED <<call, processingSteps, currentImageUri, ran, lastStep>>
    /\ configUnchanged

\* Lines 289-300.
PreviewStarVector ==
    /\ pc = "previewStarVector"
    /\ \E r \in imageToSVG(call.imageUri, [model |-> "1b", useCPUMode |-> FALSE]) :
        /\ netLog' = netLog \o r.net
        /\ result' = IF r.success /\ r.svgUri # Undefined
                     THEN Spread(result, [starVector |-> r.svgUri])
                     ELSE result
        /\ tierLog' = Append(tierLog, [tier |-> "StarVector",
                         outcome |-> IF r.success THEN "success" ELSE "failure"])
    /\ pc' = "previewLocalStarVector"
    /\ UNCHANGED <<call, processingSteps, currentImageUri, ran, lastStep>>
    /\ configUnchanged

\* Lines 302-307.
PreviewLocalStarVector ==
    /\ pc = "previewLocalStarVector"
    /\ \E r \in processWithLocalStarVector(call.imageUri) :
        /\ netLog' = netLog \o r.net
        /\ result' = IF r.success /\ r.svgUri # Undefined
                     THEN Spread(result, [localStarVector |-> r.svgUri])
                     ELSE result
        /\ tierLog' = Append(tierLog, [tier |-> "Local StarVector-inspired",
                         outcome |-> IF r.success THEN "success" ELSE "failure"])
    /\ pc' = "traditional"
    /\ UNCHANGED <<call, processingSteps, currentImageUri, ran, lastStep>>
    /\ configUnchanged

\* traditionalProcessingPipeline, lines 177-184.
TraditionalPreprocess ==
    /\ pc = "traditional"
    /\ \E r \in preprocessForAI(call.imageUri) :
        /\ currentImageUri' = r.uri
        /\ lastStep' = [fn |-> "preprocessForAI", input |-> call.imageUri,
                         outcome |-> r.outcome]
    /\ ran' = <<"preprocessForAI">>
    /\ processingSteps' = processingSteps
            \o <<"Using traditional processing pipeline", "Image preprocessed">>
    /\ tierLog' = IF call.kind = "process"
                  THEN Append(tierLog, [tier |-> "Traditional", outcome |-> "running"])
                  ELSE tierLog
    /\ pc' = AfterPreprocess(PipelineOptions)
    /\ UNCHANGED <<call, result, netLog>>
    /\ configUnchanged

\* Lines 186-197.  When removeBackgroundAI never settles, the pipeline stays
\* at its await.
TraditionalBackground ==
    /\ pc = "removeBackground"
    /\ \E ai \in removeBackgroundAI(currentImageUri) :
        /\ netLog' = netLog \o ai.net
        /\ IF ~ai.settled
           THEN /\ pc' = "awaiting removeBackgroundAI"
                /\ ran' = Append(ran, "removeBackgroundAI")
                /\ UNCHANGED <<currentImageUri, processingSteps, lastStep>>
           ELSE IF ai.value # Null
           THEN /\ currentImageUri' = ai.value
                /\ processingSteps' =
                        Append(processingSteps, "Background removed using AI")
                /\ lastStep' = [fn |-> "removeBackgroundAI", input |-> currentImageUri,
                                 outcome |-> "ok"]
                /\ ran' = Append(ran, "removeBackgroundAI")
                /\ pc' = AfterBackground(PipelineOptions)
           ELSE \E r \in localBackgroundRemoval(currentImageUri) :
                /\ currentImageUri' = r.uri
                /\ processingSteps' =
                        Append(processingSteps, "Background processed locally")
                /\ lastStep' = [fn |-> "localBackgroundRemoval",
                                 input |-> currentImageUri, outcome |-> r.outcome]
                /\ ran' = ran \o <<"removeBackgroundAI", "localBackgroundRemoval">>
                /\ pc' = AfterBackground(PipelineOptions)
    /\ UNCHANGED <<call, result, tierLog>>
    /\ configUnchanged

\* Lines 199-204.
TraditionalSmartCrop ==
    /\ pc = "smartCrop"
    /\ \E r \in smartCrop(currentImageUri) :
        /\ currentImageUri' = r.uri
        /\ lastStep' = [fn |-> "smartCrop", input |-> currentImageUri,
                         outcome |-> r.outcome]
    /\ processingSteps' = Append(processingSteps, "Smart cropped")
    /\ ran' = Append(ran, "smartCrop")
    /\ pc' = AfterSmartCrop(PipelineOptions)
    /\ UNCHANGED <<call, result, netLog, tierLog>>
    /\ configUnchanged

\* Lines 206-211.
TraditionalLineArt ==
    /\ pc = "convertToLineArt"
    /\ \E r \in convertToLineArt(currentImageUri) :
        /\ currentImageUri' = r.uri
        /\ lastStep' = [fn |-> "convertToLineArt", input |-> currentImageUri,
                         outcome |-> r.outcome]
    /\ processingSteps' = Append(processingSteps, "Converted to line art")
    /\ ran' = Append(ran, "convertToLineArt")
    /\ pc' = "applyTattooStyling"
    /\ UNCHANGED <<call, result, netLog, tierLog>>
    /\ configUnchanged

\* Lines 213-227, and the return to the caller: lines 149 and 316-324.
TraditionalStyling ==
    /\ pc = "applyTattooStyling"
    /\ \E r \in applyTattooStyling(currentImageUri,
                    IF "autoContrast" \in DOMAIN PipelineOptions
                    THEN PipelineOptions.autoContrast ELSE TRUE) :
        /\ currentImageUri' = r.uri
        /\ lastStep' = [fn |-> "applyTattooStyling", input |-> currentImageUri,
                         outcome |-> r.outcome]
        /\ result' = IF call.kind = "process"
                     THEN ProcessingSuccess(call.imageUri, r.uri,
                            Append(processingSteps, "Tattoo styling applied"),
                            "PNG", NoSvg, "traditional-pipeline")
                     ELSE Spread(result, [traditional |-> r.uri])
    /\ processingSteps' = Append(processingSteps, "Tattoo styling applied")
    /\ ran' = Append(ran, "applyTattooStyling")
    /\ tierLog' = IF call.kind = "process"
                  THEN [tierLog EXCEPT ![Len(tierLog)].outcome = "success"]
                  ELSE tierLog
    /\ pc' = "resolved"
    /\ UNCHANGED <<call, netLog>>
    /\ configUnchanged

\* The caller's await returns and the result is consumed.
ReturnToCaller ==
    /\ pc = "resolved"
    /\ pc' = "idle"
    /\ call' = NoCall
    /\ processingSteps' = <<>>
    /\ currentImageUri' = Undefined
    /\ result' = <<>>
    /\ netLog' = <<>>
    /\ tierLog' = <<>>
    /\ ran' = <<>>
    /\ lastStep' = NoStep
    /\ configUnchanged

KeyInputs == [removeBG : BOOLEAN, clipdrop : BOOLEAN, huggingFace : BOOLEAN]

\* The steps of a call in flight.
CallStep ==
    \/ StarVectorTier
    \/ LocalStarVectorTier
    \/ PreviewStarVector
    \/ PreviewLocalStarVector
    \/ TraditionalPreprocess
    \/ TraditionalBackground
    \/ TraditionalSmartCrop
    \/ TraditionalLineArt
    \/ TraditionalStyling

\* What AsyncStorage holds under CUSTOM_DESIGNS_KEY: no item, or a text.
NoItem == [item |-> Null, text |-> <<>>]

Item(text) == [item |-> "string", text |-> text]

\* A store with nothing saved.  The other backend is followed while no storage
\* call fails; a failed call ends the comparison and it starts afresh.
EmptyStore == [stored |-> NoItem, memoryStorage |-> <<>>]

\* designManager.ts:14: nothing stored yet.
StoreStart ==
    /\ stored = NoItem
    /\ memoryStorage = <<>>
    /\ dmLast = [op |-> "none", before |-> <<>>, readFailed |-> FALSE,
                 writeFailed |-> FALSE, threw |-> ""]
    /\ other = EmptyStore

(***************************************************************************)
(* DesignCaptureScreen: the crop area and its gestures                     *)
(***************************************************************************)

Max(a, b) == IF a > b THEN a ELSE b

minSize == 50

\* The layouts onLayout reports for the crop image: the style gives it the
\* full width of its container and a height of 300.
LayoutInputs == [width : {240, 360}, height : {300}]

FallbackLayout == [width |-> 337, height |-> 300]

\* gestureState.dx and gestureState.dy, the distance since the touch began
Deltas == {-400, -50, 50, 400}

Corners == {"topLeft", "topRight", "bottomLeft", "bottomRight"}

CropStart ==
    /\ cropArea = [x |-> 50, y |-> 50, width |-> 200, height |-> 200]
    /\ imageLayoutRef = [width |-> 0, height |-> 0]
    /\ dragStartCropRef = [x |-> 50, y |-> 50, width |-> 200, height |-> 200]
    /\ gesture = "none"
    /\ cropLast = [step |-> "none", dx |-> 0, dy |-> 0]

isDragging == gesture = "drag"

currentImageLayout ==
    IF imageLayoutRef.width > 0 THEN imageLayoutRef ELSE FallbackLayout

\* The effect on [cropArea, isDragging]: outside a drag the drag start follows
\* the crop area.  It runs after the render, which may come before or after
\* the next move event.
EffectOutcomes(newCrop) ==
    IF isDragging THEN {dragStartCropRef} ELSE {dragStartCropRef, newCrop}

InitializeCropArea(layout) ==
    /\ layout.width > 0 /\ layout.height > 0
    /\ LET minDimension == Min(layout.width, layout.height)
           cropSize == (minDimension * 7) \div 10
           newCropArea == [x |-> (layout.width - cropSize) \div 2,
                           y |-> (layout.height - cropSize) \div 2,
                           width |-> cropSize, height |-> cropSize]
       IN  /\ cropArea' = newCropArea
           /\ dragStartCropRef' = newCropArea
    /\ imageLayoutRef' = layout
    /\ cropLast' = [step |-> "initialize", dx |-> 0, dy |-> 0]
    /\ UNCHANGED <<gesture, aiVars, dmVars>>

ResetCropArea ==
    /\ imageLayoutRef.width > 0 /\ imageLayoutRef.height > 0
    /\ InitializeCropArea(imageLayoutRef)

DragGrant ==
    /\ gesture = "none"
    /\ gesture' = "drag"
    /\ dragStartCropRef' = cropArea
    /\ cropLast' = [step |-> "dragGrant", dx |-> 0, dy |-> 0]
    /\ UNCHANGED <<cropArea, imageLayoutRef, aiVars, dmVars>>

\* A drag that keeps the crop area right of and below the origin only.
DragMoveWithoutUpperLimit(dx, dy) ==
    /\ gesture = "drag"
    /\ cropArea' = [cropArea EXCEPT !.x = Max(0, dragStartCropRef.x + dx),
                                     !.y = Max(0, dragStartCropRef.y + dy)]
    /\ cropLast' = [step |-> "dragMove", dx |-> dx, dy |-> dy]
    /\ UNCHANGED <<imageLayoutRef, dragStartCropRef, gesture, aiVars, dmVars>>

DragMove(dx, dy) ==
    /\ gesture = "drag"
    /\ LET newX == dragStartCropRef.x + dx
           newY == dragStartCropRef.y + dy
           maxX == currentImageLayout.width - dragStartCropRef.width
           maxY == currentImageLayout.height - dragStartCropRef.height
           constrainedX == Max(0, Min(maxX, newX))
           constrainedY == Max(0, Min(maxY, newY))
       IN  cropArea' = [cropArea EXCEPT !.x = constrainedX, !.y = constrainedY]
    /\ cropLast' = [step |-> "dragMove", dx |-> dx, dy |-> dy]
    /\ UNCHANGED <<imageLayoutRef, dragStartCropRef, gesture, aiVars, dmVars>>

ResizeGrant(corner) ==
    /\ gesture = "none"
    /\ gesture' = corner
    /\ dragStartCropRef' = cropArea
    /\ cropLast' = [step |-> "resizeGrant", dx |-> 0, dy |-> 0]
    /\ UNCHANGED <<cropArea, imageLayoutRef, aiVars, dmVars>>

\* A resize with no lower limit on the side.
ResizeMoveWithoutMinimum(dx) ==
    /\ gesture \in Corners
    /\ LET side == Min(Min(currentImageLayout.width, currentImageLayout.height),
                       IF gesture \in {"topLeft", "bottomLeft"}
                       THEN dragStartCropRef.width - dx
                       ELSE dragStartCropRef.width + dx)
           newCrop == [x |-> Max(0, Min(currentImageLayout.width - side, dragStartCropRef.x)),
                       y |-> Max(0, Min(currentImageLayout.height - side, dragStartCropRef.y)),
                       width |-> side, height |-> side]
       IN  /\ cropArea' = newCrop
           /\ dragStartCropRef' \in EffectOutcomes(newCrop)
    /\ cropLast' = [step |-> "resizeMove", dx |-> dx, dy |-> 0]
    /\ UNCHANGED <<imageLayoutRef, gesture, aiVars, dmVars>>

ResizeMove(dx) ==
    /\ gesture \in Corners
    /\ LET startCrop == dragStartCropRef
           desiredWidth == IF gesture \in {"topLeft", "bottomLeft"}
                           THEN startCrop.width - dx
                           ELSE startCrop.width + dx
           maxSize == Min(currentImageLayout.width, currentImageLayout.height)
           constrainedWidth == Max(minSize, Min(maxSize, desiredWidth))
           constrainedHeight == constrainedWidth
           newX == IF gesture \in {"topLeft", "bottomLeft"}
                   THEN startCrop.x + startCrop.width - constrainedWidth
                   ELSE startCrop.x
           newY == IF gesture \in {"topLeft", "topRight"}
                   THEN startCrop.y + startCrop.height - constrainedHeight
                   ELSE startCrop.y
           newCrop == [x |-> Max(0, Min(currentImageLayout.width - constrainedWidth, newX)),
                       y |-> Max(0, Min(currentImageLayout.height - constrainedHeight, newY)),
                       width |-> constrainedWidth,
                       height |-> constrainedHeight]
       IN  /\ cropArea' = newCrop
           /\ dragStartCropRef' \in EffectOutcomes(newCrop)
    /\ cropLast' = [step |-> "resizeMove", dx |-> dx, dy |-> 0]
    /\ UNCHANGED <<imageLayoutRef, gesture, aiVars, dmVars>>

Release ==
    /\ gesture # "none"
    /\ gesture' = "none"
    /\ dragStartCropRef' = cropArea
    /\ cropLast' = [step |-> "release", dx |-> 0, dy |-> 0]
    /\ UNCHANGED <<cropArea, imageLayoutRef, aiVars, dmVars>>

InitAI ==
    /\ ModulesLoaded /\ ProcessorsStart /\ AsyncStorage = TRUE /\ StoreStart
    /\ CropStart

NextAI ==
    \/ \E keys \in KeyInputs, enableCPUMode \in BOOLEAN, ctorOk \in BOOLEAN :
            SetAPIKeys(keys, enableCPUMode, ctorOk)
    \/ \E imageUri \in ImageUris, options \in OptionInputs :
            ProcessImageToTattooDesign(imageUri, options)
    \/ \E imageUri \in ImageUris : GenerateProcessingPreviews(imageUri)
    \/ CallStep
    \/ ReturnToCaller

SpecAI == InitAI /\ [][NextAI]_vars

(***************************************************************************)
(* Properties of the image-processing calls                                *)
(***************************************************************************)

Range(seq) == {seq[i] : i \in 1..Len(seq)}

Last(seq) == seq[Len(seq)]

Tiers == {"StarVector", "Local StarVector-inspired", "Traditional"}

TierRank(t) ==
    CASE t = "StarVector" -> 1
      [] t = "Local StarVector-inspired" -> 2
      [] t = "Traditional" -> 3

TierEnabled(t) ==
    CASE t = "StarVector" -> finalOptions.useStarVector /\ isAvailable
      [] t = "Local StarVector-inspired" -> finalOptions.fallbackToLocal
      [] t = "Traditional" -> TRUE

\* C1: processImageToTattooDesign starts its tiers in the order StarVector,
\* local StarVector-inspired, traditional: a tier is started only when it is
\* enabled and every earlier enabled tier has been started and has failed, no
\* tier is started after a tier that succeeded, and the call resolves from a
\* tier that succeeded.  (The catch block with the ultimate fallback is never
\* entered: no function awaited in the try block rejects.)
C1_TierOrder ==
    call.kind = "process" =>
        /\ \A j \in 1..Len(tierLog) :
            /\ TierEnabled(tierLog[j].tier)
            /\ \A i \in 1..(j - 1) :
                /\ TierRank(tierLog[i].tier) < TierRank(tierLog[j].tier)
                /\ tierLog[i].outcome = "failure"
            /\ \A t \in Tiers :
                (TierRank(t) < TierRank(tierLog[j].tier) /\ TierEnabled(t))
                    => \E i \in 1..(j - 1) : tierLog[i].tier = t
        /\ pc = "resolved" => (tierLog # <<>> /\ Last(tierLog).outcome = "success")

C1_Witness ==
    /\ pc = "resolved"
    /\ call.kind = "process"
    /\ Len(tierLog) = 3
    /\ tierLog[1].outcome = "failure"
    /\ tierLog[2].outcome = "failure"
    /\ tierLog[3].outcome = "success"

\* C2: a processImageToTattooDesign call always resolves, and resolves to a
\* result with success = true and a defined processedImageUri: a call in
\* flight can always take its next step, and a resolved call has such a result.
C2_AlwaysResolvesWithSuccess ==
    call.kind = "process" =>
        /\ pc = "resolved" =>
            (result.success /\ result.processedImageUri \notin {Undefined, Null})
        /\ pc # "resolved" => ENABLED CallStep

\* C3: with CPU mode enabled through setAPIKeys, a call with default options
\* enters the StarVector tier, and once the image is read it asks the local
\* server for its health.
C3_CPUModeChecksLocalServer ==
    (pc = "resolved" /\ call.kind = "process" /\ call.options = <<>> /\ cpuModeEnabled)
        => /\ tierLog[1].tier = "StarVector"
           /\ ("Using starvector/starvector-1b-im2svg model" \in Range(result.processingSteps)
                    => HealthRequest \in Range(netLog))

\* C4: a call with useCPUMode: true in its options issues no HuggingFace
\* request before it has checked the local CPU server.
C4_OptionChecksLocalServerFirst ==
    (call.kind = "process" /\ finalOptions.useCPUMode)
        => \A i \in 1..Len(netLog) :
                netLog[i] \in {HfChatRequest, HfTextRequest}
                    => \E j \in 1..(i - 1) : netLog[j] = HealthRequest

\* C5: as long as setAPIKeys was never given a Remove.bg, ClipDrop or
\* HuggingFace key and never enabled CPU mode, processImageToTattooDesign and
\* generateProcessingPreviews issue no network request, whatever the options,
\* and neither is left waiting for a remote service.
C5_LocalModeIssuesNoRequest ==
    (~everPassed.remoteKey /\ ~everPassed.cpuMode) =>
        /\ netLog = <<>>
        /\ pc # "awaiting removeBackgroundAI"

C5_Witness ==
    /\ pc = "resolved"
    /\ call.kind = "process"
    /\ ~everPassed.remoteKey
    /\ ~everPassed.cpuMode
    /\ result.model = "traditional-pipeline"
    /\ "localBackgroundRemoval" \in Range(ran)

\* The processingSteps entry a pipeline step pushes.
StepLabel(fn) ==
    CASE fn = "preprocessForAI" -> "Image preprocessed"
      [] fn = "removeBackgroundAI" -> "Background removed using AI"
      [] fn = "localBackgroundRemoval" -> "Background processed locally"
      [] fn = "smartCrop" -> "Smart cropped"
      [] fn = "convertToLineArt" -> "Converted to line art"
      [] fn = "applyTattooStyling" -> "Tattoo styling applied"

Stage(fn) ==
    IF fn \in {"removeBackgroundAI", "localBackgroundRemoval"}
    THEN "background removal" ELSE fn

\* The steps run, with a removeBackgroundAI that gave no image left out: the
\* localBackgroundRemoval that follows it is then the background removal.
RECURSIVE Effective(_)
Effective(r) ==
    IF r = <<>> THEN <<>>
    ELSE IF Len(r) >= 2 /\ r[1] = "removeBackgroundAI" /\ r[2] = "localBackgroundRemoval"
    THEN Effective(Tail(r))
    ELSE <<r[1]>> \o Effective(Tail(r))

If(flag, stage) == IF flag THEN <<stage>> ELSE <<>>

\* What traditionalProcessingPipeline pushed: the entries after its marker.
PipelineSteps(steps) ==
    LET k == CHOOSE i \in 1..Len(steps) : steps[i] = "Using traditional processing pipeline"
    IN  SubSeq(steps, k + 1, Len(steps))

\* C6: a finished traditional pipeline has run preprocess, background removal
\* iff removeBackground, smart crop iff smartCrop, line-art conversion iff
\* convertToLineArt, and tattoo styling, in that order; processingSteps lists
\* exactly those steps in that order, and the result of
\* processImageToTattooDesign has format 'PNG' and model 'traditional-pipeline'.
C6_PipelineSequence ==
    (pc = "resolved" /\ ran # <<>>) =>
        LET eff == Effective(ran)
        IN  /\ [i \in 1..Len(eff) |-> Stage(eff[i])] =
                    <<"preprocessForAI">>
                    \o If(Truthy(PipelineOptions, "removeBackground"), "background removal")
                    \o If(Truthy(PipelineOptions, "smartCrop"), "smartCrop")
                    \o If(Truthy(PipelineOptions, "convertToLineArt"), "convertToLineArt")
                    \o <<"applyTattooStyling">>
            /\ PipelineSteps(processingSteps) = [i \in 1..Len(eff) |-> StepLabel(eff[i])]
            /\ call.kind = "process" =>
                /\ result.processingSteps = processingSteps
                /\ result.format = "PNG"
                /\ result.model = "traditional-pipeline"

C6_Witness ==
    /\ pc = "resolved"
    /\ call.kind = "process"
    /\ ~Truthy(finalOptions, "smartCrop")
    /\ ran = <<"preprocessForAI", "removeBackgroundAI", "convertToLineArt",
               "applyTattooStyling">>
    /\ result.model = "traditional-pipeline"

\* The position of the pipeline after the step fn.
Following(fn) ==
    CASE fn = "preprocessForAI" -> AfterPreprocess(PipelineOptions)
      [] fn \in {"removeBackgroundAI", "localBackgroundRemoval"} ->
            AfterBackground(PipelineOptions)
      [] fn = "smartCrop" -> AfterSmartCrop(PipelineOptions)
      [] fn = "convertToLineArt" -> "applyTattooStyling"
      [] fn = "applyTattooStyling" -> "resolved"

\* C7: when the image operation of a pipeline step throws, or the
\* image-manipulation module is missing, the step returns the URI it was given
\* and the pipeline goes on to the step that follows; with the module missing
\* the processedImageUri of a traditional result is the input URI.
C7_StepFallback ==
    /\ lastStep.outcome \in {"threw", "no module"} =>
        /\ currentImageUri = lastStep.input
        /\ \/ pc = Following(lastStep.fn)
           \/ /\ Following(lastStep.fn) = "removeBackground"
              /\ pc = "awaiting removeBackgroundAI"
    /\ (pc = "resolved" /\ call.kind = "process" /\ ran # <<>> /\ ~ImageManipulator)
            => result.processedImageUri = call.imageUri

C7_Witness ==
    /\ lastStep = [fn |-> "convertToLineArt", input |-> "manip:cropped_600.png",
                   outcome |-> "threw"]
    /\ currentImageUri = "manip:cropped_600.png"
    /\ pc = "applyTattooStyling"

IsBackgroundRequest(q) == q \in {RemoveBgRequest, ClipDropRequest}

BackgroundRequests == SelectSeq(netLog, IsBackgroundRequest)

BackgroundLabels(steps) ==
    {i \in 1..Len(steps) :
        steps[i] \in {"Background removed using AI", "Background processed locally"}}

\* C8: Remove.bg is requested only with its key set, ClipDrop only with its
\* key set and after Remove.bg, if configured, gave no image; local background
\* removal runs only after every configured service gave no image; a finished
\* pipeline records exactly one of the two background steps when
\* removeBackground is set and none otherwise, 'Background removed using AI'
\* only with the image of a remote service.
C8_BackgroundFallback ==
    /\ RemoveBgRequest \in Range(netLog) => AI_SERVICES.REMOVE_BG
    /\ ClipDropRequest \in Range(netLog) => AI_SERVICES.CLIPDROP
    /\ lastStep.fn = "removeBackgroundAI" =>
        /\ Last(processingSteps) = "Background removed using AI"
        /\ currentImageUri \in {"file:bg_removed.png", "file:clipdrop.png"}
        /\ currentImageUri = "file:bg_removed.png" =>
                BackgroundRequests = <<RemoveBgRequest>>
        /\ currentImageUri = "file:clipdrop.png" =>
                BackgroundRequests =
                    If(AI_SERVICES.REMOVE_BG, RemoveBgRequest) \o <<ClipDropRequest>>
    /\ lastStep.fn = "localBackgroundRemoval" =>
        /\ Last(processingSteps) = "Background processed locally"
        /\ BackgroundRequests =
                If(AI_SERVICES.REMOVE_BG, RemoveBgRequest)
                \o If(AI_SERVICES.CLIPDROP, ClipDropRequest)
    /\ (pc = "resolved" /\ ran # <<>>) =>
        Cardinality(BackgroundLabels(processingSteps)) =
            IF Truthy(PipelineOptions, "removeBackground") THEN 1 ELSE 0

C8_Witness ==
    /\ lastStep.fn = "localBackgroundRemoval"
    /\ BackgroundRequests = <<RemoveBgRequest, ClipDropRequest>>
    /\ Last(processingSteps) = "Background processed locally"

(***************************************************************************)
(* DesignManager                                                           *)
(***************************************************************************)

\* The largest number of designs the model stores.
MaxDesigns == 3

\* A Design: its id and its createdAt, which is a Date, or is absent.  After
\* JSON.parse(JSON.stringify(d)) a Date is the string toISOString gave.
DateValue(t) == [type |-> "Date", time |-> t]

StringValue(t) == [type |-> "string", time |-> t]

NoValue == [type |-> "undefined", time |-> 0]

DesignInputs ==
    [id : {"user_1", "user_2"}, createdAt : {DateValue(1), DateValue(2), NoValue}]

\* JSON.stringify of a design list: the text, as the values JSON.parse gives
\* back for it.
JSONStringify(designs) ==
    [i \in 1..Len(designs) |->
        [designs[i] EXCEPT !.createdAt =
            IF @.type = "Date" THEN StringValue(@.time) ELSE @]]

JSONParse(text) == text

\* The null getCustomDesign returns, as a design no caller can save.
NullDesign == [id |-> Null, createdAt |-> NoValue]

\* The same reads and writes on a store st = [stored, memoryStorage] of the
\* backend async, with every storage call succeeding.
ReadOn(async, st) ==
    IF async
    THEN IF st.stored.item # Null THEN JSONParse(st.stored.text) ELSE <<>>
    ELSE st.memoryStorage

WriteOn(async, st, updatedDesigns) ==
    IF async
    THEN [st EXCEPT !.stored = Item(JSONStringify(updatedDesigns))]
    ELSE [st EXCEPT !.memoryStorage = updatedDesigns]

ClearOn(async, st) ==
    IF async
    THEN [st EXCEPT !.stored = NoItem]
    ELSE [st EXCEPT !.memoryStorage = <<>>]

\* getCustomDesigns: [] when getItem rejects.
getCustomDesigns(readOk) ==
    IF AsyncStorage
    THEN IF ~readOk THEN <<>>
         ELSE IF stored.item # Null THEN JSONParse(stored.text) ELSE <<>>
    ELSE memoryStorage

\* getCustomDesign(designId): the first design with that id, or null.
getCustomDesign(designId, readOk) ==
    LET customDesigns == getCustomDesigns(readOk)
        found == {i \in 1..Len(customDesigns) : customDesigns[i].id = designId}
    IN  IF found = {} THEN NullDesign
        ELSE customDesigns[CHOOSE i \in found : \A j \in found : i <= j]

\* customDesigns.filter(design => design.id !== designId)
WithoutId(customDesigns, designId) ==
    LET Keep(design) == design.id # designId
    IN  SelectSeq(customDesigns, Keep)

\* getDesignStats on the list getCustomDesigns returned.  dates.sort calls
\* a.getTime() as soon as there are two dates: a createdAt that is a string
\* has no getTime, the TypeError is caught and the result is the one of the
\* catch block.
DesignStats(customDesigns) ==
    LET IsDate(createdAt) == createdAt.type # "undefined"
        dates == SelectSeq([i \in 1..Len(customDesigns) |-> customDesigns[i].createdAt],
                           IsDate)
        Sorted(i) == \A j \in 1..Len(dates) : dates[i].time <= dates[j].time
        Latest(i) == \A j \in 1..Len(dates) : dates[i].time >= dates[j].time
        none == [totalCustomDesigns |-> 0, oldestDesign |-> NoValue,
                 newestDesign |-> NoValue]
    IN  IF Len(customDesigns) = 0 THEN none
        ELSE IF Len(dates) >= 2 /\ \E i \in 1..Len(dates) : dates[i].type # "Date"
        THEN none
        ELSE [totalCustomDesigns |-> Len(customDesigns),
              oldestDesign |-> IF dates = <<>> THEN NoValue
                               ELSE dates[CHOOSE i \in 1..Len(dates) : Sorted(i)],
              newestDesign |-> IF dates = <<>> THEN NoValue
                               ELSE dates[CHOOSE i \in 1..Len(dates) : Latest(i)]]

getDesignStats(readOk) == DesignStats(getCustomDesigns(readOk))

\* The outcomes of the storage calls: without AsyncStorage nothing can fail.
StorageOutcomes == IF AsyncStorage THEN BOOLEAN ELSE {TRUE}

\* saveCustomDesign(design).
SaveCustomDesign(design, readOk, writeOk) ==
    /\ Len(getCustomDesigns(TRUE)) < MaxDesigns
    /\ LET updatedDesigns == <<design>> \o getCustomDesigns(readOk)
       IN  IF AsyncStorage
           THEN /\ stored' = IF writeOk THEN Item(JSONStringify(updatedDesigns)) ELSE stored
                /\ UNCHANGED memoryStorage
           ELSE /\ memoryStorage' = updatedDesigns
                /\ UNCHANGED stored
    /\ other' = IF readOk /\ writeOk
                THEN WriteOn(~AsyncStorage, other,
                             <<design>> \o ReadOn(~AsyncStorage, other))
                ELSE EmptyStore
    /\ dmLast' = [op |-> "saveCustomDesign", design |-> design,
                  before |-> getCustomDesigns(TRUE),
                  readFailed |-> ~readOk, writeFailed |-> ~writeOk,
                  threw |-> IF writeOk THEN "" ELSE "Failed to save design"]
    /\ UNCHANGED <<AsyncStorage, aiVars, uiVars>>

\* deleteCustomDesign(designId).
DeleteCustomDesign(designId, readOk, writeOk) ==
    /\ LET updatedDesigns == WithoutId(getCustomDesigns(readOk), designId)
       IN  IF AsyncStorage
           THEN /\ stored' = IF writeOk THEN Item(JSONStringify(updatedDesigns)) ELSE stored
                /\ UNCHANGED memoryStorage
           ELSE /\ memoryStorage' = updatedDesigns
                /\ UNCHANGED stored
    /\ other' = IF readOk /\ writeOk
                THEN WriteOn(~AsyncStorage, other,
                             WithoutId(ReadOn(~AsyncStorage, other), designId))
                ELSE EmptyStore
    /\ dmLast' = [op |-> "deleteCustomDesign", designId |-> designId,
                  before |-> getCustomDesigns(TRUE),
                  readFailed |-> ~readOk, writeFailed |-> ~writeOk,
                  threw |-> IF writeOk THEN "" ELSE "Failed to delete design"]
    /\ UNCHANGED <<AsyncStorage, aiVars, uiVars>>

\* Mutant: a failed removeItem is swallowed.
ClearAllCustomDesignsSwallowsFailure(writeOk) ==
    /\ IF AsyncStorage
       THEN /\ stored' = IF writeOk THEN NoItem ELSE stored
            /\ UNCHANGED memoryStorage
       ELSE /\ memoryStorage' = <<>>
            /\ UNCHANGED stored
    /\ other' = IF writeOk THEN ClearOn(~AsyncStorage, other) ELSE EmptyStore
    /\ dmLast' = [op |-> "clearAllCustomDesigns",
                  before |-> getCustomDesigns(TRUE),
                  readFailed |-> FALSE, writeFailed |-> ~writeOk,
                  threw |-> ""]
    /\ UNCHANGED <<AsyncStorage, aiVars, uiVars>>

\* clearAllCustomDesigns().
ClearAllCustomDesigns(writeOk) ==
    /\ IF AsyncStorage
       THEN /\ stored' = IF writeOk THEN NoItem ELSE stored
            /\ UNCHANGED memoryStorage
       ELSE /\ memoryStorage' = <<>>
            /\ UNCHANGED stored
    /\ other' = IF writeOk THEN ClearOn(~AsyncStorage, other) ELSE EmptyStore
    /\ dmLast' = [op |-> "clearAllCustomDesigns",
                  before |-> getCustomDesigns(TRUE),
                  readFailed |-> FALSE, writeFailed |-> ~writeOk,
                  threw |-> IF writeOk THEN "" ELSE "Failed to clear designs"]
    /\ UNCHANGED <<AsyncStorage, aiVars, uiVars>>

\* The image processors are left as loaded, with every module present.
InitDM ==
    /\ HfInference = TRUE
    /\ ImageManipulator = TRUE
    /\ FileSystem = TRUE
    /\ ProcessorsStart
    /\ AsyncStorage \in BOOLEAN
    /\ StoreStart
    /\ CropStart

NextDM ==
    \/ \E design \in DesignInputs, readOk \in StorageOutcomes, writeOk \in StorageOutcomes :
            SaveCustomDesign(design, readOk, writeOk)
    \/ \E designId \in {"user_1", "user_2", "user_3"},
          readOk \in StorageOutcomes, writeOk \in StorageOutcomes :
            DeleteCustomDesign(designId, readOk, writeOk)
    \/ \E writeOk \in StorageOutcomes : ClearAllCustomDesigns(writeOk)

SpecDM == InitDM /\ [][NextDM]_vars

\* The same calls with no storage call failing.
NextBackends ==
    \/ \E design \in DesignInputs : SaveCustomDesign(design, TRUE, TRUE)
    \/ \E designId \in {"user_1", "user_2", "user_3"} :
            DeleteCustomDesign(designId, TRUE, TRUE)
    \/ ClearAllCustomDesigns(TRUE)

SpecBackends == InitDM /\ [][NextBackends]_vars

(***************************************************************************)
(* Properties of DesignManager                                             *)
(***************************************************************************)

\* C9: after saveCustomDesign(d) has resolved, getCustomDesigns returns d
\* followed by the designs stored before the call, in their order, and
\* getCustomDesign(d.id) returns d.
C9_SavedDesignComesFirst ==
    (dmLast.op = "saveCustomDesign" /\ dmLast.threw = "") =>
        /\ getCustomDesigns(TRUE) = <<dmLast.design>> \o dmLast.before
        /\ getCustomDesign(dmLast.design.id, TRUE) = dmLast.design

\* C10: after deleteCustomDesign(id) the stored designs are those stored
\* before whose id is not id, in their order; the call rejects only when the
\* storage write failed, never because id is not stored.
C10_DeleteRemovesOnlyThatId ==
    dmLast.op = "deleteCustomDesign" =>
        /\ dmLast.threw = "" =>
                getCustomDesigns(TRUE) = WithoutId(dmLast.before, dmLast.designId)
        /\ dmLast.threw # "" => getCustomDesigns(TRUE) = dmLast.before
        /\ ~AsyncStorage => dmLast.threw = ""

\* The message each operation rejects with.
FailureMessage(op) ==
    CASE op = "saveCustomDesign" -> "Failed to save design"
      [] op = "deleteCustomDesign" -> "Failed to delete design"
      [] op = "clearAllCustomDesigns" -> "Failed to clear designs"

\* C11: when the storage write of saveCustomDesign, deleteCustomDesign or
\* clearAllCustomDesigns fails, the call rejects with its own message and the
\* stored designs are those stored before the call.
C11_WriteFailureRejects ==
    dmLast.writeFailed =>
        /\ dmLast.threw = FailureMessage(dmLast.op)
        /\ getCustomDesigns(TRUE) = dmLast.before

C11_Witness ==
    /\ dmLast.op = "clearAllCustomDesigns"
    /\ dmLast.writeFailed
    /\ dmLast.threw = "Failed to clear designs"
    /\ Len(getCustomDesigns(TRUE)) = 2

\* C12: after the same sequence of saveCustomDesign, deleteCustomDesign and
\* clearAllCustomDesigns calls, none of which failed, the AsyncStorage backend
\* and the in-memory backend return the same getCustomDesigns (hence the same
\* getCustomDesign) and the same getDesignStats.
C12_BackendsInterchangeable ==
    /\ getCustomDesigns(TRUE) = ReadOn(~AsyncStorage, other)
    /\ getDesignStats(TRUE) = DesignStats(ReadOn(~AsyncStorage, other))

\* The times of the createdAt values of the stored designs.
StoredTimes ==
    LET customDesigns == getCustomDesigns(TRUE)
    IN  {customDesigns[i].createdAt.time :
            i \in {j \in 1..Len(customDesigns) :
                        customDesigns[j].createdAt.type # "undefined"}}

\* C15: getDesignStats returns the number of stored designs as
\* totalCustomDesigns and, when a stored design has a createdAt, the smallest
\* and the largest createdAt as oldestDesign and newestDesign.
C15_DesignStats ==
    LET stats == getDesignStats(TRUE)
    IN  /\ stats.totalCustomDesigns = Len(getCustomDesigns(TRUE))
        /\ StoredTimes # {} =>
            /\ stats.oldestDesign.type # "undefined"
            /\ stats.newestDesign.type # "undefined"
            /\ \A t \in StoredTimes :
                    stats.oldestDesign.time <= t /\ t <= stats.newestDesign.time
            /\ stats.oldestDesign.time \in StoredTimes
            /\ stats.newestDesign.time \in StoredTimes

(***************************************************************************)
(* Properties of the StarVector results                                    *)
(***************************************************************************)

\* What the file behind a URI returned by saveSVGToFile holds: the constant
\* simpleGeometricPNG resized to 400 x 400, or the text of the fallback file.
ImageContent(uri) ==
    CASE uri = "manip:tattoo_design.png" -> "simpleGeometricPNG resized to 400"
      [] uri = "file:fallback_design.txt" -> "Design generated successfully"
      [] OTHER -> uri

\* The format of that file.
FileFormat(uri) ==
    CASE uri = "manip:tattoo_design.png" -> "PNG"
      [] uri = "file:fallback_design.txt" -> "text"
      [] OTHER -> "other"

\* The SVG codes saveSVGToFile is given: the cleaned answer of the local CPU
\* server or of the HuggingFace API, and the optimized template of the local
\* generator in each size.
SvgCodes ==
    {validateAndCleanSVG([origin |-> o, markup |-> "svg", width |-> 0, height |-> 0]).value :
        o \in {"cpu", "hf"}}
    \cup {optimizeSVGForTattoo(c) :
            c \in UNION {generateSVGFromAnalysis(analyzeImageForVectors(u), u) : u \in ImageUris}}

\* C13: the image a StarVector-tier result points to is the conversion of its
\* SVG code: saveSVGToFile given a different SVG code does not return an image
\* with the same content.
C13_ImageDependsOnSVG ==
    (pc = "resolved" /\ call.kind = "process" /\ result.format = "SVG") =>
        \A svgCode \in SvgCodes \ {result.svgCode} :
            \A p \in saveSVGToFile(svgCode) :
                ~p.threw =>
                    ImageContent(p.value) # ImageContent(result.processedImageUri)

\* The model names imageToSVG can report for an SVG the StarVector engines made.
StarVectorModelNames ==
    {ModelName([model |-> m]) \o suffix : m \in {"1b", "8b"}, suffix \in {"", " (Local CPU)"}}

\* C14: a result of the StarVector tier names a StarVector model when the
\* HuggingFace API or the local CPU server generated its SVG, and
\* 'Enhanced StarVector-inspired (Local)' only when the local
\* StarVector-inspired generator did.
C14_ModelNamesEngine ==
    (pc = "resolved" /\ call.kind = "process" /\ tierLog # <<>>
        /\ Last(tierLog).tier = "StarVector") =>
        /\ result.svgCode.origin \in {"hf", "cpu"} => result.model \in StarVectorModelNames
        /\ result.model = "Enhanced StarVector-inspired (Local)"
                => result.svgCode.origin = "local-inspired"

\* C16: a successful result of imageToSVG or processWithLocalStarVector has
\* as svgUri (processedImageUri of the call, starVector / localStarVector of
\* the previews) the URI of a PNG file.
C16_DisplayablePNG ==
    /\ (pc = "resolved" /\ call.kind = "process" /\ result.format = "SVG")
            => FileFormat(result.processedImageUri) = "PNG"
    /\ call.kind = "previews" =>
            \A f \in DOMAIN result \cap {"starVector", "localStarVector"} :
                FileFormat(result[f]) = "PNG"

\* The options imageToSVG can be given.
StarVectorOptionInputs == [model : {"1b", "8b"}, useCPUMode : BOOLEAN]

\* The place of a request in the order of the engines.
RequestRank(q) ==
    CASE q = HealthRequest -> 1
      [] q = GenerateRequest -> 2
      [] q = HfChatRequest -> 3
      [] q = HfTextRequest -> 4

C18_InitializeAgreesWithIsAvailable ==
    everPassed.returnedTrue <=> isAvailable

\* C19: the result of generateProcessingPreviews has original equal to the
\* input URI; starVector, localStarVector and traditional are present exactly
\* when that method returned success; the local StarVector-inspired preview and
\* the traditional pipeline run whatever the methods before them returned.
C19_Previews ==
    call.kind = "previews" =>
        LET Succeeded(t) == [tier |-> t, outcome |-> "success"] \in Range(tierLog)
            Ran(t) == \E i \in 1..Len(tierLog) : tierLog[i].tier = t
        IN  /\ result.original = call.imageUri
            /\ "starVector" \in DOMAIN result <=> Succeeded("StarVector")
            /\ "localStarVector" \in DOMAIN result <=> Succeeded("Local StarVector-inspired")
            /\ "traditional" \in DOMAIN result <=>
                    (ran # <<>> /\ Last(ran) = "applyTattooStyling")
            /\ pc = "resolved" =>
                    /\ Ran("Local StarVector-inspired")
                    /\ "traditional" \in DOMAIN result
                    /\ result.traditional = currentImageUri

C19_Witness ==
    /\ pc = "resolved"
    /\ call.kind = "previews"
    /\ tierLog = <<[tier |-> "StarVector", outcome |-> "failure"],
                   [tier |-> "Local StarVector-inspired", outcome |-> "success"]>>
    /\ DOMAIN result = {"original", "localStarVector", "traditional"}

(***************************************************************************)
(* The crop screen alone: the image processors and the store stay as       *)
(* loaded, the user touches the crop area.                                 *)
(***************************************************************************)

InitCrop ==
    /\ HfInference = TRUE
    /\ ImageManipulator = TRUE
    /\ FileSystem = TRUE
    /\ ProcessorsStart
    /\ AsyncStorage = TRUE
    /\ StoreStart
    /\ CropStart

NextCrop ==
    \/ \E layout \in LayoutInputs : InitializeCropArea(layout)
    \/ ResetCropArea
    \/ DragGrant
    \/ \E dx \in Deltas, dy \in Deltas : DragMove(dx, dy)
    \/ \E corner \in Corners : ResizeGrant(corner)
    \/ \E dx \in Deltas : ResizeMove(dx)
    \/ Release

SpecCrop == InitCrop /\ [][NextCrop]_vars

(***************************************************************************)
(* Properties of the crop area                                             *)
(***************************************************************************)

\* C20: after any sequence of drag and corner-resize gestures the whole crop
\* rectangle lies within the image layout the handlers use: x >= 0, y >= 0,
\* x + width <= layout width and y + height <= layout height.
C20_CropWithinImage ==
    cropLast.step \in {"dragMove", "resizeMove", "release"} =>
        /\ cropArea.x >= 0
        /\ cropArea.y >= 0
        /\ cropArea.x + cropArea.width <= currentImageLayout.width
        /\ cropArea.y + cropArea.height <= currentImageLayout.height

\* A resize to the full height followed by a drag pushed against the right
\* and bottom edges of a laid-out image.
C20_Witness ==
    /\ cropLast.step = "dragMove"
    /\ cropLast.dx > 0 /\ cropLast.dy > 0
    /\ imageLayoutRef.width > 0
    /\ cropArea.width # (Min(imageLayoutRef.width, imageLayoutRef.height) * 7) \div 10
    /\ cropArea.x > 0
    /\ cropArea.x + cropArea.width = imageLayoutRef.width
    /\ cropArea.y + cropArea.height = imageLayoutRef.height

\* C21: the crop area is always square, and after any resize gesture its side
\* is at least 50 and at most min(layout width, layout height).
C21_SquareWithinLimits ==
    /\ cropArea.width = cropArea.height
    /\ cropLast.step = "resizeMove" =>
        /\ cropArea.width >= minSize
        /\ cropArea.width <= Min(currentImageLayout.width, currentImageLayout.height)

\* A resize of a laid-out image that was pulled past the smallest side and
\* stopped at it.
C21_Witness ==
    /\ cropLast.step = "resizeMove"
    /\ imageLayoutRef.width > 0
    /\ cropArea.width = minSize
    /\ cropArea.height = minSize

\* The side a resize from the rectangle start gives for a cumulative dx.
SideFrom(start, corner, dx) ==
    Max(minSize, Min(Min(currentImageLayout.width, currentImageLayout.height),
                     IF corner \in {"topLeft", "bottomLeft"}
                     THEN start.width - dx
                     ELSE start.width + dx))

\* The corner of crop opposite the dragged handle is where it is in start.
OppositeCornerAt(crop, start, corner) ==
    /\ IF corner \in {"topLeft", "bottomLeft"}
       THEN crop.x + crop.width = start.x + start.width
       ELSE crop.x = start.x
    /\ IF corner \in {"topLeft", "topRight"}
       THEN crop.y + crop.height = start.y + start.height
       ELSE crop.y = start.y

\* C22: during one corner-resize gesture every move leaves the drag-start
\* reference as the grant set it, whatever effects run after the move, and
\* computes the crop from it: the side is the start side plus or minus the
\* cumulative dx (clamped), and the corner opposite the handle stays where it
\* is in the start rectangle.
C22_ResizeFromGrant ==
    [][(gesture \in Corners /\ cropLast'.step = "resizeMove") =>
            /\ dragStartCropRef' = dragStartCropRef
            /\ cropArea'.width = SideFrom(dragStartCropRef, gesture, cropLast'.dx)
            /\ OppositeCornerAt(cropArea', dragStartCropRef, gesture)]_vars

====
